---- MODULE Spec2Model ----
(***************************************************************************)
(* Model of src/common/gpx.c: the GMarkup callbacks that build the list of *)
(* track points of a GPX file, dt_gpx_new / dt_gpx_destroy around them,    *)
(* and the lookup dt_gpx_get_location.                                     *)
(*                                                                         *)
(* Pointers are heap addresses (NULL is 0).  The heap keeps, for every     *)
(* address, whether it is unused, live or freed; g_malloc may hand out any *)
(* address that is not live, so a freed address can come back.  Fields     *)
(* named got_*, time_ok and time_failed are history fields of a point:     *)
(* the program does not store them, the properties read them.              *)
(***************************************************************************)
EXTENDS Integers, Sequences, FiniteSets, TLC

VARIABLES
  pc,                      \* where the caller of the module stands
  open,                    \* the event source's stack of open elements
  track,                   \* gpx->track: list of pointers
  current_track_point,     \* gpx->current_track_point
  current_parser_element,  \* gpx->current_parser_element
  invalid_track_point,     \* gpx->invalid_track_point
  heap,                    \* the g_malloc heap: address -> block
  ub,                      \* undefined behaviour executed so far, if any
  query,                   \* dt_gpx_get_location: timestamp->tv_sec
  result,                  \* dt_gpx_get_location: return value and outputs
  doc,                     \* two parses of one file: its events, recorded by
                           \* the first parse and consumed by the second
  first                    \* two parses of one file: the first parse's list

vars == <<pc, open, track, current_track_point, current_parser_element,
          invalid_track_point, heap, ub, query, result, doc, first>>

(***************************** bounds **************************************)
\* trkpt elements of a document that can reach the list (stored + open)
MaxTrack == 2
\* nesting depth of the document
MaxDepth == 3
\* locate: length of the track and range of the timestamps
MaxLen == 3
MaxTime == 2
\* two parses of one file: number of events of the file
MaxDoc == 5

(***************************** constants ***********************************)
GPX_PARSER_ELEMENT_TRKPT == 1
GPX_PARSER_ELEMENT_TIME == 2
GPX_PARSER_ELEMENT_ELE == 4

NULL == 0
\* the double NAN, a value no conversion of the inputs produces
NAN == -1
\* heap addresses: room for the points of two parses
Addr == 1..(2 * MaxTrack)

(***************************** inputs **************************************)
\* element names the event source can deliver ("name" stands for any other)
Names == {"trkpt", "time", "ele", "name"}

\* attribute lists of a start-element: pairs of attribute name and value
AttrLists ==
  { <<>>,
    << [n |-> "lon", v |-> <<"1">>], [n |-> "lat", v |-> <<"2">>] >>,
    << [n |-> "lat", v |-> <<"2">>] >> }

\* character data: an ISO-8601 time, and text that is neither a time nor a
\* number
Texts == { <<"5", "Z">>, <<"x">> }

(************************ library conversions ******************************)
DigitChars == <<"0", "1", "2", "3", "4", "5", "6", "7", "8", "9">>

IsDigit(c) == \E i \in DOMAIN DigitChars : DigitChars[i] = c

DigitVal(c) == (CHOOSE i \in DOMAIN DigitChars : DigitChars[i] = c) - 1

\* the longest prefix of s made of digits
RECURSIVE DigitPrefix(_)
DigitPrefix(s) ==
  IF s = <<>> \/ ~IsDigit(Head(s)) THEN <<>>
  ELSE <<Head(s)>> \o DigitPrefix(Tail(s))

RECURSIVE DecimalValue(_)
DecimalValue(s) ==
  IF s = <<>> THEN 0
  ELSE 10 * DecimalValue(SubSeq(s, 1, Len(s) - 1)) + DigitVal(s[Len(s)])

\* g_ascii_strtod(s, NULL): converts the leading number, 0 when there is none
g_ascii_strtod(s) == DecimalValue(DigitPrefix(s))

\* g_time_val_from_iso8601(s, &t): the accepted texts are digits closed by
\* the zone designator Z; returns whether the text parsed and the seconds
g_time_val_from_iso8601(s) ==
  LET body == SubSeq(s, 1, Len(s) - 1)
      good == /\ Len(s) >= 2
              /\ s[Len(s)] = "Z"
              /\ \A i \in DOMAIN body : IsDigit(body[i])
  IN  [ok |-> good, tv_sec |-> IF good THEN DecimalValue(body) ELSE 0]

\* C comparison a == b of two doubles: false whenever an operand is NaN
FloatEq(a, b) == a # NAN /\ b # NAN /\ a = b

(***************************** heap ****************************************)
\* memset(p, 0, sizeof(_gpx_track_point_t)) on a fresh block
ZeroPoint ==
  [state |-> "live", longitude |-> 0, latitude |-> 0, elevation |-> 0,
   time |-> 0, got_lon |-> FALSE, got_lat |-> FALSE,
   time_ok |-> FALSE, time_failed |-> FALSE]

UnusedBlock == [ZeroPoint EXCEPT !.state = "unused"]

\* a released block: its contents are indeterminate, its history is kept
FreedBlock(b) ==
  [UnusedBlock EXCEPT !.state = "freed", !.time_failed = b.time_failed]

IsLive(h, p) == p # NULL /\ h[p].state = "live"
IsFreed(h, p) == p # NULL /\ h[p].state = "freed"

\* g_free(p): nothing for NULL; releasing a released block is undefined
g_free(g, p) ==
  IF p = NULL THEN g
  ELSE IF g.heap[p].state = "live"
       THEN [g EXCEPT !.heap[p] = FreedBlock(g.heap[p])]
       ELSE [g EXCEPT !.ub = "double_free"]

\* addresses g_malloc may return: a released one, or the next unused one
MallocChoices(h) ==
  LET unused == {a \in Addr : h[a].state = "unused"}
  IN  {a \in Addr : h[a].state = "freed"}
        \cup (IF unused = {} THEN {}
              ELSE {CHOOSE a \in unused : \A b \in unused : a <= b})

fprintf(g) == [g EXCEPT !.reports = @ + 1]

(***************************** the context *********************************)
\* the dt_gpx_t the callbacks receive as user_data, with the heap it points
\* into
Gpx ==
  [track |-> track,
   current_track_point |-> current_track_point,
   current_parser_element |-> current_parser_element,
   invalid_track_point |-> invalid_track_point,
   heap |-> heap,
   reports |-> 0,   \* fprintf(stderr, ...) calls of the callback
   ub |-> ub]

\* a write through p: undefined when the block was released
Store(g, p, field, value) ==
  IF g.heap[p].state = "live"
  THEN [g EXCEPT !.heap[p][field] = value]
  ELSE [g EXCEPT !.ub = "use_after_free"]

(************************ _gpx_parser_start_element *************************)
\* lines 181-185: a point is still in progress; the pointer is kept
FreeStalePoint(g) ==
  IF g.current_track_point # NULL
  THEN g_free(fprintf(g), g.current_track_point)
  ELSE g

\* lines 202-211: the loop over the attributes
RECURSIVE ScanAttributes(_, _)
ScanAttributes(g, attrs) ==
  IF attrs = <<>> THEN g
  ELSE LET a == Head(attrs)
           p == g.current_track_point
           g1 == IF a.n = "lon"
                 THEN [g EXCEPT !.heap[p].longitude = g_ascii_strtod(a.v),
                                !.heap[p].got_lon = TRUE]
                 ELSE IF a.n = "lat"
                 THEN [g EXCEPT !.heap[p].latitude = g_ascii_strtod(a.v),
                                !.heap[p].got_lat = TRUE]
                 ELSE g
       IN  ScanAttributes(g1, Tail(attrs))

\* lines 214-219: the check of the coordinates against NAN
ValidateLonLat(g) ==
  LET p == g.current_track_point
  IN  IF FloatEq(g.heap[p].longitude, NAN) \/ FloatEq(g.heap[p].latitude, NAN)
      THEN [fprintf(g) EXCEPT !.invalid_track_point = TRUE]
      ELSE g

\* lines 192-223: allocate and fill the point, or complain
BeginPoint(g, attrs, addr) ==
  IF attrs # <<>>
  THEN LET g1 == [g EXCEPT !.current_track_point = addr,
                           !.heap[addr] = [ZeroPoint EXCEPT !.longitude = NAN,
                                                            !.latitude = NAN]]
       IN  ValidateLonLat(ScanAttributes(g1, attrs))
  ELSE fprintf(g)

\* MarkTrkpt that leaves the classification as it was
MarkTrkpt_skipped(g) == g

\* line 225
MarkTrkpt(g) == [g EXCEPT !.current_parser_element = GPX_PARSER_ELEMENT_TRKPT]

\* OtherElement that clears the classification
OtherElement_clears(g) == [g EXCEPT !.current_parser_element = 0]

\* lines 227-242: an element that is none of trkpt, time, ele
OtherElement(g) == g

start_element(g, element_name, attrs, addr) ==
  IF element_name = "trkpt"
  THEN LET g1 == FreeStalePoint(g)
           g2 == [g1 EXCEPT !.invalid_track_point = FALSE]
           g3 == BeginPoint(g2, attrs, addr)
       IN  MarkTrkpt(g3)
  ELSE IF element_name = "time"
  THEN IF g.current_track_point = NULL THEN fprintf(g)
       ELSE [g EXCEPT !.current_parser_element = GPX_PARSER_ELEMENT_TIME]
  ELSE IF element_name = "ele"
  THEN IF g.current_track_point = NULL THEN fprintf(g)
       ELSE [g EXCEPT !.current_parser_element = GPX_PARSER_ELEMENT_ELE]
  ELSE OtherElement(g)

(************************* _gpx_parser_end_element **************************)
\* FinishPoint with the test of the flag inverted
FinishPoint_inverted(g) ==
  LET g1 == IF g.invalid_track_point
            THEN [g EXCEPT !.track = Append(@, g.current_track_point)]
            ELSE g_free(g, g.current_track_point)
  IN  [g1 EXCEPT !.current_track_point = NULL]

\* FinishPoint that leaves the pointer to the finished point in place
FinishPoint_keeps_pointer(g) ==
  IF ~g.invalid_track_point
  THEN [g EXCEPT !.track = Append(@, g.current_track_point)]
  ELSE g_free(g, g.current_track_point)

\* lines 256-264
FinishPoint(g) ==
  LET g1 == IF ~g.invalid_track_point
            THEN [g EXCEPT !.track = Append(@, g.current_track_point)]
            ELSE g_free(g, g.current_track_point)
  IN  [g1 EXCEPT !.current_track_point = NULL]

\* end_element that clears the classification only when a trkpt ends
end_element_trkpt_only(g, element_name) ==
  IF element_name = "trkpt"
  THEN [FinishPoint(g) EXCEPT !.current_parser_element = 0]
  ELSE g

end_element(g, element_name) ==
  LET g1 == IF element_name = "trkpt" THEN FinishPoint(g) ELSE g
  IN  [g1 EXCEPT !.current_parser_element = 0]

(***************************** _gpx_parser_text *****************************)
\* lines 280-288
SetTime(g, text) ==
  LET p == g.current_track_point
      r == g_time_val_from_iso8601(text)
  IN  IF r.ok
      THEN Store(Store(g, p, "time", r.tv_sec), p, "time_ok", TRUE)
      ELSE [fprintf(Store(g, p, "time_failed", TRUE))
              EXCEPT !.invalid_track_point = TRUE]

\* lines 289-290
SetElevation(g, text) ==
  Store(g, g.current_track_point, "elevation", g_ascii_strtod(text))

parser_text(g, text) ==
  IF g.current_track_point = NULL THEN g
  ELSE IF g.current_parser_element = GPX_PARSER_ELEMENT_TIME
  THEN SetTime(g, text)
  ELSE IF g.current_parser_element = GPX_PARSER_ELEMENT_ELE
  THEN SetElevation(g, text)
  ELSE g

(***************************** dt_gpx_destroy *******************************)
\* line 123: g_list_foreach(gpx->track, g_free)
RECURSIVE FreeAll(_, _)
FreeAll(g, list) ==
  IF list = <<>> THEN g
  ELSE FreeAll(g_free(g, Head(list)), Tail(list))

dt_gpx_destroy(g) == FreeAll(g, g.track)

(*************************** dt_gpx_get_location ****************************)
\* the caller's view before the call: nothing returned, *lon and *lat not
\* written
NoResult ==
  [called |-> FALSE, ret |-> FALSE, wrote |-> FALSE, lon |-> 0, lat |-> 0,
   item |-> 0, ub |-> "none"]

\* TooFew that tests the list only for being empty
TooFew_empty(list) == list = <<>>

\* line 134: !item || !item->next
TooFew(list) == list = <<>> \/ Len(list) = 1

\* OutOfRange with a strict comparison against the point's time
OutOfRange_strict(q, t, last) == (last /\ q >= t) \/ q < t

\* OutOfRange without the test for a timestamp past the last point
OutOfRange_no_tail(q, t, last) == q <= t

\* lines 146-147: last is !item->next
OutOfRange(q, t, last) == (last /\ q >= t) \/ q <= t

\* InRange that excludes the time of the next point
InRange_exclusive(q, t, tnext) == q >= t /\ q < tnext

\* lines 155-156, once item->next is known not to be NULL
InRange(q, t, tnext) == q >= t /\ q <= tnext

\* Located that takes the coordinates from the following point, if any
Located_next(g, i, ret) ==
  LET j == IF i < Len(g.track) THEN i + 1 ELSE i
  IN  [called |-> TRUE, ret |-> ret, wrote |-> TRUE,
       lon |-> g.heap[g.track[j]].longitude, lat |-> g.heap[g.track[j]].latitude,
       item |-> i, ub |-> "none"]

\* lines 149-151 and 158-160: fill *lon, *lat from the point at position i
Located(g, i, ret) ==
  [called |-> TRUE, ret |-> ret, wrote |-> TRUE,
   lon |-> g.heap[g.track[i]].longitude, lat |-> g.heap[g.track[i]].latitude,
   item |-> i, ub |-> "none"]

\* a read through a pointer that is NULL or refers to a released block
BadRead(p) ==
  [NoResult EXCEPT !.called = TRUE,
                   !.ub = IF p = NULL THEN "null_deref" ELSE "use_after_free"]

\* lines 137-166: the loop, item being the i-th node of the list
RECURSIVE Scan(_, _, _)
Scan(g, q, i) ==
  LET tp == g.track[i]
      last == i = Len(g.track)
      t == g.heap[tp].time
  IN  IF ~IsLive(g.heap, tp) THEN BadRead(tp)
      ELSE IF OutOfRange(q, t, last) THEN Located(g, i, FALSE)
      ELSE IF q >= t /\ last THEN BadRead(NULL)
      ELSE IF q >= t /\ ~IsLive(g.heap, g.track[i + 1]) THEN BadRead(g.track[i + 1])
      ELSE IF q >= t /\ InRange(q, t, g.heap[g.track[i + 1]].time)
      THEN Located(g, i, TRUE)
      ELSE IF ~last THEN Scan(g, q, i + 1)
      ELSE [NoResult EXCEPT !.called = TRUE]

dt_gpx_get_location(g, q) ==
  IF TooFew(g.track) THEN [NoResult EXCEPT !.called = TRUE]
  ELSE Scan(g, q, 1)

(***************************** the event source *****************************)
\* an open element: its name, whether its start-element carried attributes,
\* and whether a later trkpt started while its point was in progress
Element(name, attrs) ==
  [name |-> name, attrs |-> attrs # <<>>, superseded |-> FALSE]

OpenTrkpts == {i \in DOMAIN open : open[i].name = "trkpt"}

\* the innermost open trkpt, 0 when there is none
InnerTrkpt ==
  IF OpenTrkpts = {} THEN 0
  ELSE CHOOSE i \in OpenTrkpts : \A j \in OpenTrkpts : j <= i

\* the stack after a start-element
Opened(name, attrs) ==
  LET marked == IF name = "trkpt" /\ current_track_point # NULL /\ InnerTrkpt # 0
                THEN [open EXCEPT ![InnerTrkpt].superseded = TRUE]
                ELSE open
  IN  Append(marked, Element(name, attrs))

\* A released block that no pointer of a context refers to cannot be told
\* from a block never handed out: it is kept as unused.
Collect(g) ==
  [g EXCEPT !.heap =
     [a \in Addr |->
        IF /\ g.heap[a].state = "freed"
           /\ g.current_track_point # a
           /\ \A i \in DOMAIN g.track : g.track[i] # a
           /\ \A i \in DOMAIN first.track : first.track[i] # a
        THEN UnusedBlock ELSE g.heap[a]]]

\* the callback returned g: the program goes on, or, when the callback
\* executed undefined behaviour, goes on or is stopped by the allocator
Commit(g, next) ==
  /\ track' = g.track
  /\ current_track_point' = g.current_track_point
  /\ current_parser_element' = g.current_parser_element
  /\ invalid_track_point' = g.invalid_track_point
  /\ heap' = Collect(g).heap
  /\ ub' = g.ub
  /\ \/ pc' = next
     \/ g.ub # ub /\ pc' = "aborted"

Init ==
  /\ pc = "parse"
  /\ open = <<>>
  /\ track = <<>>
  /\ current_track_point = NULL
  /\ current_parser_element = 0
  /\ invalid_track_point = FALSE
  /\ heap = [a \in Addr |-> UnusedBlock]
  /\ ub = "none"
  /\ query = 0
  /\ result = NoResult
  /\ doc = <<>>
  /\ first = [done |-> FALSE, track |-> <<>>]

\* what g_malloc can return to the start-element callback (line 194), NULL
\* standing for "not called"
MallocResults(name, attrs) ==
  IF name = "trkpt" /\ attrs # <<>>
  THEN MallocChoices(FreeStalePoint(Gpx).heap)
  ELSE {NULL}

\* g_markup_parse_context_parse delivers a start-element
StartElement ==
  /\ pc = "parse"
  /\ Len(open) < MaxDepth
  /\ \E name \in Names, attrs \in AttrLists :
       /\ name # "trkpt" => attrs = <<>>
       /\ name = "trkpt" => Len(track) + Cardinality(OpenTrkpts) < MaxTrack
       /\ \E addr \in MallocResults(name, attrs) :
            /\ Commit(start_element(Gpx, name, attrs, addr), "parse")
            /\ open' = Opened(name, attrs)
  /\ UNCHANGED <<query, result, doc, first>>

\* ... the end-element of the innermost open element; the document ends with
\* its root element
EndElement ==
  /\ pc = "parse"
  /\ open # <<>>
  /\ Commit(end_element(Gpx, open[Len(open)].name),
            IF Len(open) = 1 THEN "eof" ELSE "parse")
  /\ open' = SubSeq(open, 1, Len(open) - 1)
  /\ UNCHANGED <<query, result, doc, first>>

\* ... character data inside an open element
Text ==
  /\ pc = "parse"
  /\ open # <<>>
  /\ \E text \in Texts : Commit(parser_text(Gpx, text), "parse")
  /\ UNCHANGED <<open, query, result, doc, first>>

\* dt_gpx_new lines 93-100: the parse succeeded, the context is returned
ParseDone ==
  /\ pc = "eof"
  /\ pc' = "parsed"
  /\ UNCHANGED <<open, track, current_track_point, current_parser_element,
                 invalid_track_point, heap, ub, query, result, doc, first>>

\* g_free(gpx): the context is gone, and with it its fields; the blocks its
\* pointers referred to stay as they are
Released(g) ==
  [g EXCEPT !.track = <<>>,
            !.current_track_point = NULL,
            !.current_parser_element = 0,
            !.invalid_track_point = FALSE]

\* dt_gpx_new lines 93-94, 102-115: the event source reports an error; the
\* context is released, the points it holds are not
ParseError ==
  /\ pc = "parse"
  /\ Commit(Released(Gpx), "failed")
  /\ open' = <<>>
  /\ UNCHANGED <<query, result, doc, first>>

\* dt_gpx_destroy on the returned context
Destroy ==
  /\ pc = "parsed"
  /\ Commit(Released(dt_gpx_destroy(Gpx)), "destroyed")
  /\ UNCHANGED <<open, query, result, doc, first>>

Next ==
  \/ StartElement
  \/ EndElement
  \/ Text
  \/ ParseDone
  \/ ParseError
  \/ Destroy

Spec == Init /\ [][Next]_vars

(***************************** two parses of one file ***********************)
\* an event of the file: a start-element with its attributes, an end-element,
\* or character data
StartEvents ==
  { [kind |-> "start", name |-> n, arg |-> a] : n \in Names, a \in AttrLists }
EndEvents == { [kind |-> "end", name |-> n, arg |-> <<>>] : n \in Names }
TextEvents == { [kind |-> "text", name |-> "", arg |-> t] : t \in Texts }
Events == StartEvents \cup EndEvents \cup TextEvents

\* the event source can deliver ev now (the guards of StartElement,
\* EndElement and Text)
Deliverable(ev) ==
  CASE ev.kind = "start" ->
         /\ Len(open) < MaxDepth
         /\ ev.name # "trkpt" => ev.arg = <<>>
         /\ ev.name = "trkpt" => Len(track) + Cardinality(OpenTrkpts) < MaxTrack
    [] ev.kind = "end" -> open # <<>> /\ ev.name = open[Len(open)].name
    [] OTHER -> open # <<>>

\* the callback the event source runs for ev
Callback(ev, addr) ==
  CASE ev.kind = "start" -> start_element(Gpx, ev.name, ev.arg, addr)
    [] ev.kind = "end" -> end_element(Gpx, ev.name)
    [] OTHER -> parser_text(Gpx, ev.arg)

\* the stack of open elements after ev
OpenAfter(ev) ==
  CASE ev.kind = "start" -> Opened(ev.name, ev.arg)
    [] ev.kind = "end" -> SubSeq(open, 1, Len(open) - 1)
    [] OTHER -> open

\* the document ends with its root element
PcAfter(ev) == IF ev.kind = "end" /\ Len(open) = 1 THEN "eof" ELSE "parse"

\* first dt_gpx_new(filename): the event source delivers an event of the file
FirstEvent ==
  /\ pc = "parse"
  /\ ~first.done
  /\ Len(doc) < MaxDoc
  /\ \E ev \in Events :
       /\ Deliverable(ev)
       /\ \E addr \in MallocResults(ev.name, ev.arg) :
            Commit(Callback(ev, addr), PcAfter(ev))
       /\ open' = OpenAfter(ev)
       /\ doc' = Append(doc, ev)
  /\ UNCHANGED <<first, query, result>>

\* the first dt_gpx_new returns its context (lines 93-100); the second
\* dt_gpx_new(filename) begins with a zeroed context (lines 87-88)
SecondNew ==
  /\ pc = "eof"
  /\ ~first.done
  /\ first' = [done |-> TRUE, track |-> track]
  /\ pc' = "parse"
  /\ track' = <<>>
  /\ current_track_point' = NULL
  /\ current_parser_element' = 0
  /\ invalid_track_point' = FALSE
  /\ UNCHANGED <<open, heap, ub, query, result, doc>>

\* second dt_gpx_new(filename): the event source delivers the same events
SecondEvent ==
  /\ pc = "parse"
  /\ first.done
  /\ doc # <<>>
  /\ LET ev == Head(doc)
     IN  /\ \E addr \in MallocResults(ev.name, ev.arg) :
              Commit(Callback(ev, addr), PcAfter(ev))
         /\ open' = OpenAfter(ev)
  /\ doc' = Tail(doc)
  /\ UNCHANGED <<first, query, result>>

\* the second dt_gpx_new returns its context (lines 93-100)
SecondDone ==
  /\ pc = "eof"
  /\ first.done
  /\ pc' = "parsed"
  /\ UNCHANGED <<open, track, current_track_point, current_parser_element,
                 invalid_track_point, heap, ub, query, result, doc, first>>

NextTwice ==
  \/ FirstEvent
  \/ SecondNew
  \/ SecondEvent
  \/ SecondDone

SpecTwice == Init /\ [][NextTwice]_vars

(***************************** lookups **************************************)
\* coordinates of the stored points
Coords == { <<1, 2>>, <<3, 4>> }

\* the points a parse can leave in the list
LocPoints ==
  { [ZeroPoint EXCEPT !.longitude = c[1], !.latitude = c[2], !.time = t,
                      !.got_lon = TRUE, !.got_lat = TRUE, !.time_ok = TRUE] :
      c \in Coords, t \in 0..MaxTime }

\* a context returned by dt_gpx_new, holding up to MaxLen points in any order
\* of their times, and a timestamp to look up
InitLocate ==
  /\ pc = "parsed"
  /\ open = <<>>
  /\ \E n \in 0..MaxLen : \E pts \in [1..n -> LocPoints] :
       /\ track = [i \in 1..n |-> i]
       /\ heap = [a \in 1..MaxLen |-> IF a <= n THEN pts[a] ELSE UnusedBlock]
  /\ current_track_point = NULL
  /\ current_parser_element = 0
  /\ invalid_track_point = FALSE
  /\ ub = "none"
  /\ query \in 0..(MaxTime + 1)
  /\ result = NoResult
  /\ doc = <<>>
  /\ first = [done |-> FALSE, track |-> <<>>]

\* the caller looks the timestamp up
Locate ==
  /\ pc = "parsed"
  /\ ~result.called
  /\ result' = dt_gpx_get_location(Gpx, query)
  /\ UNCHANGED <<pc, open, track, current_track_point, current_parser_element,
                 invalid_track_point, heap, ub, query, doc, first>>

NextLocate == Locate

SpecLocate == InitLocate /\ [][NextLocate]_vars

(***************************************************************************)
(*                              Properties                                 *)
(***************************************************************************)
Parsing == pc \in {"parse", "eof", "parsed"}

\* this step is the end-element callback of the innermost open element
EndStep ==
  /\ pc = "parse"
  /\ pc' # "failed"
  /\ open # <<>>
  /\ open' = SubSeq(open, 1, Len(open) - 1)

Innermost == open[Len(open)]

\* p is a block holding a point that got both coordinates and a time
Complete(p) ==
  /\ IsLive(heap, p)
  /\ heap[p].got_lon /\ heap[p].got_lat
  /\ heap[p].time_ok /\ ~heap[p].time_failed

\* C1: during and after a parse every entry of the track list is a point that
\* received lon and lat and whose time was set by a successful ISO-8601
\* parse; no entry is NULL, lacks a time, or was marked invalid.
C1_OnlyCompletePointsStored ==
  Parsing => \A i \in DOMAIN track : Complete(track[i])

\* C2: a trkpt with attributes but without lon or without lat is marked
\* invalid when it begins and never reaches the track list.
C2_MissingLonLatDiscarded ==
  /\ ( /\ pc = "parse"
       /\ IsLive(heap, current_track_point)
       /\ ~(heap[current_track_point].got_lon /\ heap[current_track_point].got_lat) )
     => invalid_track_point
  /\ \A i \in DOMAIN track :
       IsLive(heap, track[i]) => heap[track[i]].got_lon /\ heap[track[i]].got_lat

\* C3: a point for which some time text failed to parse never appears in the
\* track list, whatever follows before its end-element.
C3_FailedTimeNeverStored ==
  \A i \in DOMAIN track : track[i] # NULL => ~heap[track[i]].time_failed

\* C4: a trkpt without attributes is ignored: its end-element leaves the
\* track list as it was and no point in progress.
C4_EmptyTrkptIgnored ==
  [][ (EndStep /\ Innermost.name = "trkpt" /\ ~Innermost.attrs)
        => (track' = track /\ current_track_point' = NULL) ]_vars

\* C5: of a nested pair of trkpt elements the earlier one adds nothing to the
\* track list: the end-element of a trkpt whose point was replaced by a later
\* start-element trkpt leaves the list as it was.
C5_SupersededTrkptAddsNothing ==
  [][ (EndStep /\ Innermost.name = "trkpt" /\ Innermost.superseded)
        => track' = track ]_vars

\* C6: a released point is never the point in progress, never written to,
\* never an entry of the track list and never released again.
C6_ReleasedPointUnreachable ==
  /\ ~IsFreed(heap, current_track_point)
  /\ \A i \in DOMAIN track : ~IsFreed(heap, track[i])
  /\ ub = "none"

(* C7 *)
\* attribute lists with lon and lat, texts that parse as a time
WithLonLat == {a \in AttrLists : \E i, j \in DOMAIN a : a[i].n = "lon" /\ a[j].n = "lat"}
GoodTimes == {t \in Texts : g_time_val_from_iso8601(t).ok}

AttrValue(attrs, n) == attrs[CHOOSE i \in DOMAIN attrs : attrs[i].n = n].v

\* the callbacks for <time>text</time>, and for <ele>text</ele>
TimeChild(g, text) ==
  end_element(parser_text(start_element(g, "time", <<>>, NULL), text), "time")
EleChild(g, text) ==
  end_element(parser_text(start_element(g, "ele", <<>>, NULL), text), "ele")

\* the callbacks for a whole trkpt element; ele is <<text>> or <<>>
WholeTrkpt(g, attrs, addr, time, ele) ==
  LET g1 == TimeChild(start_element(g, "trkpt", attrs, addr), time)
      g2 == IF ele = <<>> THEN g1 ELSE EleChild(g1, ele[1])
  IN  end_element(g2, "trkpt")

\* C7: outside any trkpt, the events of a trkpt with lon, lat, a time child
\* that parses and at most one ele child append exactly one point, with the
\* parsed longitude, latitude and time, and the parsed elevation or 0.
C7_WellFormedTrkptStored ==
  (pc = "parse" /\ OpenTrkpts = {}) =>
    \A attrs \in WithLonLat, time \in GoodTimes,
       ele \in {<<>>} \cup {<<t>> : t \in Texts}, addr \in MallocChoices(heap) :
      LET g == WholeTrkpt(Gpx, attrs, addr, time, ele)
      IN  /\ g.track = Append(track, addr)
          /\ g.current_track_point = NULL
          /\ g.heap[addr].state = "live"
          /\ g.heap[addr].longitude = g_ascii_strtod(AttrValue(attrs, "lon"))
          /\ g.heap[addr].latitude = g_ascii_strtod(AttrValue(attrs, "lat"))
          /\ g.heap[addr].time = g_time_val_from_iso8601(time).tv_sec
          /\ g.heap[addr].elevation =
               (IF ele = <<>> THEN 0 ELSE g_ascii_strtod(ele[1]))
          /\ \A a \in Addr \ {addr} : g.heap[a] = heap[a]

\* a trkpt with lon, lat, time and ele has just been closed and stored
C7_Witness ==
  /\ pc = "parse"
  /\ OpenTrkpts = {}
  /\ Len(track) = 2
  /\ \A i \in DOMAIN track :
       /\ Complete(track[i])
       /\ heap[track[i]].longitude = 1 /\ heap[track[i]].latitude = 2
       /\ heap[track[i]].time = 5
  /\ heap[track[1]].elevation = 0
  /\ heap[track[2]].elevation = 5

(* lookups *)
TimeAt(i) == heap[track[i]].time

NonDecreasing == \A i \in 1..(Len(track) - 1) : TimeAt(i) <= TimeAt(i + 1)

ReturnsPoint(i) ==
  /\ result.wrote
  /\ result.lon = heap[track[i]].longitude
  /\ result.lat = heap[track[i]].latitude

\* C8: on a list of 0 or 1 points the lookup fails for every timestamp and
\* leaves *lon and *lat unwritten.
C8_TooFewPointsFails ==
  (result.called /\ Len(track) < 2) => (~result.ret /\ ~result.wrote)

C8_Witness ==
  result.called /\ Len(track) = 1 /\ query >= TimeAt(1) /\ ~result.wrote

\* C9: on a list of at least 2 points with non-decreasing times the lookup
\* returns FALSE exactly when the timestamp is at or before the first time or
\* after the last time, with the first point's coordinates in the first case
\* and the last point's in the second.
C9_OutOfRange ==
  (result.called /\ Len(track) >= 2 /\ NonDecreasing) =>
    /\ ~result.ret <=> (query <= TimeAt(1) \/ query > TimeAt(Len(track)))
    /\ query <= TimeAt(1) => ReturnsPoint(1)
    /\ query > TimeAt(Len(track)) => ReturnsPoint(Len(track))

C9_Witness ==
  /\ result.called /\ Len(track) = 3 /\ NonDecreasing
  /\ query = TimeAt(1) /\ TimeAt(1) < TimeAt(3)
  /\ ~result.ret /\ ReturnsPoint(1)
  /\ heap[track[1]].longitude # heap[track[3]].longitude

\* C10: on such a list a timestamp after the first time and not after the
\* last one is matched, with the coordinates of the first point p[i] such
\* that p[i].time < timestamp <= p[i+1].time, not those of p[i+1].
C10_InRange ==
  (/\ result.called /\ Len(track) >= 2 /\ NonDecreasing
   /\ TimeAt(1) < query /\ query <= TimeAt(Len(track))) =>
    \E i \in 1..(Len(track) - 1) :
      /\ TimeAt(i) < query /\ query <= TimeAt(i + 1)
      /\ \A j \in 1..(i - 1) : ~(TimeAt(j) < query /\ query <= TimeAt(j + 1))
      /\ result.ret
      /\ result.item = i
      /\ ReturnsPoint(i)

C10_Witness ==
  /\ result.called /\ Len(track) = 3 /\ NonDecreasing
  /\ TimeAt(2) < query /\ query = TimeAt(3)
  /\ result.ret /\ result.item = 2 /\ ReturnsPoint(2)
  /\ heap[track[2]].longitude # heap[track[3]].longitude

StrictlyIncreasing == \A i \in 1..(Len(track) - 1) : TimeAt(i) < TimeAt(i + 1)

\* the last position whose time satisfies Before(time, query)
LastWhere(Before(_, _)) ==
  LET S == {i \in DOMAIN track : Before(TimeAt(i), query)}
  IN  CHOOSE i \in S : \A j \in S : j <= i

AtOrBefore(t, q) == t <= q
StrictlyBefore(t, q) == t < q

\* C11 as stated: on a list of at least 2 points with strictly increasing
\* times and a timestamp at or after the first time, the lookup returns the
\* coordinates of the last point whose time is at or before the timestamp.
C11_LastAtOrBefore ==
  (result.called /\ Len(track) >= 2 /\ StrictlyIncreasing /\ query >= TimeAt(1))
    => ReturnsPoint(LastWhere(AtOrBefore))

\* C11, amended: on such a list the lookup returns the coordinates of the
\* first point when the timestamp equals the first time, and otherwise those
\* of the last point whose time is strictly before the timestamp.
C11_LastStrictlyBefore ==
  (result.called /\ Len(track) >= 2 /\ StrictlyIncreasing /\ query >= TimeAt(1))
    => LET k == IF query = TimeAt(1) THEN 1 ELSE LastWhere(StrictlyBefore)
       IN  result.item = k /\ ReturnsPoint(k)

\* the timestamp is the time of an interior point: the point before it is
\* returned
C11_Witness ==
  /\ result.called /\ Len(track) = 3 /\ StrictlyIncreasing
  /\ query = TimeAt(2)
  /\ result.item = 1 /\ ReturnsPoint(1)
  /\ heap[track[1]].longitude # heap[track[2]].longitude

\* C19: on a list of at least 2 points, in any order of their times, the loop
\* returns at some point of the list: the return after the loop is not
\* reached and the successor of the last point is not read.
C19_ScanReturnsInLoop ==
  (result.called /\ Len(track) >= 2) =>
    /\ result.wrote
    /\ result.item \in DOMAIN track
    /\ result.ub = "none"

\* times out of order, and the scan runs to the last point
C19_Witness ==
  /\ result.called /\ Len(track) = 3
  /\ TimeAt(1) > TimeAt(2) /\ TimeAt(2) > TimeAt(3)
  /\ result.item = 3 /\ ~result.ret

\* this step is a callback of the parse, or its successful end
ParseStep == pc \in {"parse", "eof"} /\ pc' # "failed"

\* the end-element of a trkpt whose point is in progress and not marked
\* invalid
EndOfValidTrkpt ==
  /\ EndStep /\ Innermost.name = "trkpt"
  /\ IsLive(heap, current_track_point) /\ ~invalid_track_point

\* C12: during a parse the track list changes only at the end-element of a
\* trkpt that parsed, by appending that element's point at the tail; every
\* such element adds its entry, and the points already in the list are not
\* modified by later events.
C12_StoreIsParsedTrkpts ==
  [][ ParseStep =>
        /\ track' # track => EndOfValidTrkpt
        /\ EndOfValidTrkpt => track' = Append(track, current_track_point)
        /\ \A i \in DOMAIN track :
             track[i] # NULL => heap'[track[i]] = heap[track[i]] ]_vars

\* C13: when the event source reports an error the parse fails and every
\* point allocated during it has been released.
C13_FailedParseReleasesPoints ==
  pc = "failed" => \A a \in DOMAIN heap : heap[a].state # "live"

\* this step is the start-element callback for an element called n
StartStep(n) ==
  /\ pc = "parse"
  /\ pc' # "failed"
  /\ Len(open') = Len(open) + 1
  /\ open'[Len(open')].name = n

\* this step is the text callback
TextStep ==
  /\ pc = "parse"
  /\ pc' # "failed"
  /\ open # <<>>
  /\ open' = open

Classified ==
  current_parser_element \in {GPX_PARSER_ELEMENT_TIME, GPX_PARSER_ELEMENT_ELE}

\* no text would change the context
TextIgnored == \A t \in Texts : parser_text(Gpx, t) = Gpx

\* C15 as stated: every end-element trkpt clears the point in progress and
\* the invalid mark, and a parse ends with no point in progress.
C15_EndTrkptClearsBuilder ==
  [][ ParseStep =>
        /\ (EndStep /\ Innermost.name = "trkpt")
             => (current_track_point' = NULL /\ ~invalid_track_point')
        /\ pc' \in {"eof", "parsed"} => current_track_point' = NULL ]_vars

\* C15, amended: every end-element trkpt clears the point in progress,
\* valid or not, and leaves the invalid mark as it is; a parse ends with no
\* point in progress.
C15_EndTrkptClearsPoint ==
  [][ ParseStep =>
        /\ (EndStep /\ Innermost.name = "trkpt")
             => /\ current_track_point' = NULL
                /\ invalid_track_point' = invalid_track_point
        /\ pc' \in {"eof", "parsed"} => current_track_point' = NULL ]_vars

\* an invalid point was finished inside a trkpt that is still open: the mark
\* is still set
C15_Witness ==
  /\ pc = "parse"
  /\ OpenTrkpts # {}
  /\ current_track_point = NULL
  /\ invalid_track_point

\* C16: after every end-element the classification is 0, so that no text is
\* forwarded until the next start-element; an end-element other than trkpt
\* changes nothing else.
C16_EndClearsClassification ==
  [][ EndStep =>
        /\ current_parser_element' = 0
        /\ TextIgnored'
        /\ Innermost.name # "trkpt"
             => UNCHANGED <<track, current_track_point, invalid_track_point,
                            heap, ub>> ]_vars

\* a child of a time element has ended, the time element is still open and a
\* point is in progress
C16_Witness ==
  /\ pc = "parse"
  /\ open # <<>> /\ Innermost.name = "time"
  /\ IsLive(heap, current_track_point)
  /\ current_parser_element = 0

\* C17: a text event changes nothing but, under the classification time, the
\* time and the invalid mark of the point in progress and, under ele, its
\* elevation; it never changes the list, the classification, the pointer or
\* the coordinates, and it writes to no other memory.
C17_TextFrame ==
  [][ TextStep =>
        LET p == current_track_point
        IN  /\ UNCHANGED <<track, current_track_point, current_parser_element>>
            /\ \A a \in DOMAIN heap : a # p => heap'[a] = heap[a]
            /\ ub' = ub
            /\ (p = NULL \/ ~Classified)
                 => UNCHANGED <<invalid_track_point, heap>>
            /\ p # NULL =>
                 /\ heap'[p].longitude = heap[p].longitude
                 /\ heap'[p].latitude = heap[p].latitude
                 /\ heap'[p].state = heap[p].state
                 /\ current_parser_element = GPX_PARSER_ELEMENT_TIME
                      => heap'[p].elevation = heap[p].elevation
                 /\ current_parser_element = GPX_PARSER_ELEMENT_ELE
                      => /\ heap'[p].time = heap[p].time
                         /\ invalid_track_point' = invalid_track_point ]_vars

\* C18: a start-element that is none of trkpt, time, ele leaves the context
\* unchanged, so text after it is handled as before it; a start-element time
\* or ele with no point in progress leaves the context unchanged and emits
\* one report.
C18_OtherStartIsNoOp ==
  [][ /\ StartStep("name")
        => /\ UNCHANGED <<track, current_track_point, current_parser_element,
                          invalid_track_point, heap, ub>>
           /\ \A t \in Texts : parser_text(Gpx, t)' = parser_text(Gpx, t)
      /\ \A n \in {"time", "ele"} :
           (StartStep(n) /\ current_track_point = NULL)
             => /\ UNCHANGED <<track, current_track_point, current_parser_element,
                               invalid_track_point, heap, ub>>
                /\ start_element(Gpx, n, <<>>, NULL).reports = 1 ]_vars

\* an element of another name is open inside a time element and the
\* classification is still time
C18_Witness ==
  /\ pc = "parse"
  /\ Len(open) = 3
  /\ open[2].name = "time" /\ open[3].name = "name"
  /\ IsLive(heap, current_track_point)
  /\ current_parser_element = GPX_PARSER_ELEMENT_TIME

\* C20: right after a start-element trkpt the classification is neither time
\* nor ele, so no text changes a point; and whenever the classification is
\* time or ele, gpx->current_track_point is not NULL.
C20_ClassifiedOnlyInsidePoint ==
  [][ ParseStep =>
        /\ StartStep("trkpt") => (~Classified' /\ TextIgnored')
        /\ Classified' => current_track_point' # NULL ]_vars

\* a trkpt with attributes has just been opened inside an open time element
C20_Witness ==
  /\ pc = "parse"
  /\ Len(open) = 3
  /\ open[2].name = "time" /\ open[3].name = "trkpt" /\ open[3].attrs
  /\ current_parser_element = GPX_PARSER_ELEMENT_TRKPT
  /\ IsLive(heap, current_track_point)

\* the two parses of the file have both returned a context
BothParsed == pc = "parsed" /\ first.done

\* the entries p and q of two lists hold points of the same values, or both
\* hold no point
SamePoint(p, q) ==
  \/ p = NULL /\ q = NULL
  \/ /\ IsLive(heap, p)
     /\ IsLive(heap, q)
     /\ heap[p].longitude = heap[q].longitude
     /\ heap[p].latitude = heap[q].latitude
     /\ heap[p].elevation = heap[q].elevation
     /\ heap[p].time = heap[q].time

\* C14: parsing the same file twice yields two stores of identical content,
\* entry by entry, and no point of one store is a point of the other.
C14_TwoParsesEqualAndDisjoint ==
  BothParsed =>
    /\ Len(track) = Len(first.track)
    /\ \A i \in DOMAIN track : SamePoint(first.track[i], track[i])
    /\ \A i \in DOMAIN first.track : \A j \in DOMAIN track :
         first.track[i] # NULL => first.track[i] # track[j]

====
